---- MODULE Spec2Model ----
(***************************************************************************)
(* A model of montecarlo/MonteCarlo.py: the classes Die, Game and Analyzer. *)
(*                                                                         *)
(* A Die is its private frame __df (face -> weight).  A Game is its list   *)
(* of Die references and _play_df, a reference to a pandas DataFrame (or   *)
(* None).  An Analyzer is its attribute results, a reference to a frame.   *)
(* Frames live in a heap and are named by references, so that copy() and   *)
(* the absence of a copy are different things.                             *)
(***************************************************************************)
EXTENDS Integers, Sequences, FiniteSets, TLC

\* Bounds of the model.
MaxRolls == 2
MaxDice == 2
NumFaces == 2

Faces == 1..NumFaces
DieIds == 1..MaxDice
None == 0

VARIABLES
    weights,    \* Die.__df of every Die object: die -> face -> weight
    dice,       \* Game.dice: position (from 0) -> Die object
    heap,       \* the live DataFrame objects: reference -> frame
    play_df,    \* Game._play_df: a reference, or None
    analyzer,   \* Analyzer.results of the caller's analyzer: a reference, or None
    shown,      \* the frame show('wide') has just returned to the caller (the caller
                \* keeps it until its next call), or None
    last,       \* the last call: its name, arguments and the error it raised
    ret,        \* what the last call returned
    lastRun,    \* history: the num_rolls and the rolls of each die in the last play that
                \* returned
    snap        \* history: the Game's table when the Analyzer was constructed, and the
                \* Analyzer's statistics right after

vars == <<weights, dice, heap, play_df, analyzer, shown, last, ret, lastRun, snap>>

-----------------------------------------------------------------------------
(* IEEE doubles, as far as weights need them: the two infinities, NaN, and *)
(* the finite values (n/d) * B^e, B being the largest double               *)
(* (sys.float_info.max).  A result larger than B in magnitude is an        *)
(* infinity, one that is lost beside B is absorbed, one below 1/B is zero. *)

Fin(n) == [k |-> "fin", n |-> n, d |-> 1, e |-> 0]
PInf == [k |-> "inf", n |-> 1, d |-> 1, e |-> 0]
NInf == [k |-> "ninf", n |-> -1, d |-> 1, e |-> 0]
NaN == [k |-> "nan", n |-> 0, d |-> 1, e |-> 0]

\* sys.float_info.max
Big == [k |-> "fin", n |-> 1, d |-> 1, e |-> 1]

Abs(i) == IF i < 0 THEN -i ELSE i

\* The double nearest to (n/d) * B^e
Round(n, d, e) ==
    CASE n = 0 \/ e < -1 -> [k |-> "fin", n |-> 0, d |-> d, e |-> 0]
      [] e > 1 \/ (e = 1 /\ Abs(n) > Abs(d)) -> IF n * d > 0 THEN PInf ELSE NInf
      [] OTHER -> [k |-> "fin", n |-> n, d |-> d, e |-> e]

IsNaN(x) == x.k = "nan"
IsFinite(x) == x.k = "fin"

\* -1, 0 or 1
Sign(x) ==
    CASE x.k = "inf" -> 1
      [] x.k = "ninf" -> -1
      [] x.k = "nan" -> 0
      [] OTHER -> IF x.n * x.d > 0 THEN 1 ELSE IF x.n * x.d < 0 THEN -1 ELSE 0

\* x < 0 (False for NaN and for a zero of either sign)
IsNeg(x) == ~IsNaN(x) /\ Sign(x) = -1

\* x == 1.0
IsOne(x) == IsFinite(x) /\ x.n = x.d /\ x.e = 0

FAdd(a, b) ==
    CASE IsNaN(a) \/ IsNaN(b) -> NaN
      [] IsFinite(a) /\ IsFinite(b) ->
            IF a.e = b.e \/ a.n = 0 \/ b.n = 0
            THEN Round(a.n * b.d + b.n * a.d, a.d * b.d, IF a.n = 0 THEN b.e ELSE a.e)
            ELSE IF a.e > b.e THEN a ELSE b
      [] IsFinite(a) -> b
      [] IsFinite(b) -> a
      [] OTHER -> IF a.k = b.k THEN a ELSE NaN

FDiv(a, b) ==
    CASE IsNaN(a) \/ IsNaN(b) -> NaN
      [] IsFinite(b) /\ Sign(b) = 0 ->
            IF Sign(a) = 0 THEN NaN ELSE IF Sign(a) = 1 THEN PInf ELSE NInf
      [] IsFinite(b) /\ IsFinite(a) -> Round(a.n * b.d, a.d * b.n, a.e - b.e)
      [] IsFinite(b) -> IF Sign(a) * Sign(b) = 1 THEN PInf ELSE NInf
      [] IsFinite(a) -> Fin(0)
      [] OTHER -> NaN

\* The sum of w[1], ..., w[n] in index order
RECURSIVE FSumTo(_, _)
FSumTo(w, n) == IF n = 0 THEN Fin(0) ELSE FAdd(FSumTo(w, n - 1), w[n])

FSum(w) == FSumTo(w, NumFaces)

-----------------------------------------------------------------------------
(* Python values passed as new_weight, and float() of them.                *)

PyNum(f) == [t |-> "num", f |-> f, s |-> ""]
PyStr(s) == [t |-> "str", f |-> Fin(0), s |-> s]
PyNone == [t |-> "none", f |-> Fin(0), s |-> ""]

\* float(x): the value, or the exception float raises
PyFloat(x) ==
    CASE x.t = "num" -> [err |-> "ok", val |-> x.f]
      [] x.t = "none" -> [err |-> "TypeError", val |-> NaN]
      [] x.s = "1" -> [err |-> "ok", val |-> Fin(1)]
      [] x.s = "inf" -> [err |-> "ok", val |-> PInf]
      [] x.s = "nan" -> [err |-> "ok", val |-> NaN]
      [] OTHER -> [err |-> "ValueError", val |-> NaN]

-----------------------------------------------------------------------------
(* Die                                                                     *)

\* Die.__init__: every weight is 1.0
DieInit == [f \in Faces |-> Fin(1)]

\* change_weight without the test of the face: .loc adds a row for a face that is new
ChangeWeightEnlarge(w, face, new_weight) ==
    LET c == PyFloat(new_weight)
    IN  IF c.err # "ok"
        THEN [err |-> "TypeError", df |-> w]
        ELSE [err |-> "ok", df |-> (face :> c.val) @@ w]

\* Die.change_weight on the frame w: the exception raised and the new frame
ChangeWeightResult(w, face, new_weight) ==
    IF face \notin DOMAIN w
    THEN [err |-> "IndexError", df |-> w]
    ELSE LET c == PyFloat(new_weight)
         IN  IF c.err # "ok"
             THEN [err |-> "TypeError", df |-> w]
             ELSE [err |-> "ok", df |-> [w EXCEPT ![face] = c.val]]

\* p = weights / total
DivideBy(w, total) == [f \in Faces |-> FDiv(w[f], total)]

\* p = weights / weights.sum()
Normalized(w) == DivideBy(w, FSum(w))

\* numpy.random.choice's checks of p, in its order
ChoiceError(p) ==
    LET p_sum == FSumTo(p, NumFaces)
    IN  IF IsNaN(p_sum) THEN "ValueError"
        ELSE IF \E f \in Faces : IsNeg(p[f]) THEN "ValueError"
        ELSE IF ~IsOne(p_sum) THEN "ValueError"
        ELSE "ok"

\* The faces numpy.random.choice can return: those of positive probability
Support(p) == {f \in Faces : Sign(p[f]) = 1}

\* Die.roll(times) on the frame w: the exception raised, and the lists it can return
RollError(w) == ChoiceError(Normalized(w))

RollOutcomes(w, times) ==
    IF RollError(w) # "ok" THEN {} ELSE [0..(times - 1) -> Support(Normalized(w))]

-----------------------------------------------------------------------------
(* pandas frames and the heap they live in                                 *)

\* pd.DataFrame(results) of a dict column -> list: one row per list position
DataFrame(results) ==
    LET cols == DOMAIN results
        rows == IF cols = {} THEN {} ELSE DOMAIN results[CHOOSE c \in cols : TRUE]
    IN  [index |-> rows, columns |-> cols, index_name |-> "", data |-> results]

Min(S) == CHOOSE x \in S : \A y \in S : x <= y

\* A reference no live object has
Alloc(h) == Min((1..(Cardinality(DOMAIN h) + 1)) \ DOMAIN h)

\* What is left of the heap h once the objects none of the three roots (Game._play_df,
\* Analyzer.results, the caller's frame) refers to are freed.  The objects left are
\* renamed: 1 for _play_df's, 2 for results' and 3 for the caller's, two roots that
\* share an object still sharing it.
Collect(h, p, a, s) ==
    LET np == IF p = None THEN None ELSE 1
        na == IF a = None THEN None ELSE IF a = p THEN np ELSE 2
        ns == IF s = None THEN None ELSE IF s = p THEN np ELSE IF s = a THEN na ELSE 3
        old == (np :> p) @@ (na :> a) @@ (ns :> s)
    IN  [heap |-> [r \in {np, na, ns} \ {None} |-> h[old[r]]],
         play_df |-> np, analyzer |-> na, shown |-> ns]

\* A frame handed over without .copy(): the same object under the same reference
FrameAlias(h, r) == [ref |-> r, heap |-> h]

\* DataFrame.copy(): a new object with the same content
FrameCopy(h, r) ==
    LET new == Alloc(h) IN [ref |-> new, heap |-> (new :> h[r]) @@ h]

-----------------------------------------------------------------------------
(* Game                                                                    *)

NumDice == Cardinality(DOMAIN dice)

\* The loop of Game.play from position i on, num_rolls being rolled with each die: the
\* ways it can end, each the exception that ends it and the dict results as it then
\* stands
RECURSIVE PlayLoop(_, _, _)
PlayLoop(i, results, num_rolls) ==
    IF i \notin DOMAIN dice
    THEN {[err |-> "ok", results |-> results]}
    ELSE IF RollError(weights[dice[i]]) # "ok"
         THEN {[err |-> RollError(weights[dice[i]]), results |-> results]}
         ELSE UNION {PlayLoop(i + 1, (i :> rolls) @@ results, num_rolls) :
                        rolls \in RollOutcomes(weights[dice[i]], num_rolls)}

\* play assigning _play_df only while it is None: a later run leaves the table alone
PlayCommitOnce(h, old, res) ==
    IF res.err # "ok" \/ old # None
    THEN [ref |-> old, heap |-> h]
    ELSE LET new == Alloc(h)
         IN  [ref |-> new,
              heap |-> (new :> [DataFrame(res.results) EXCEPT !.index_name = "Roll"]) @@ h]

\* play assigning _play_df from whatever the loop has collected, failed or not
PlayCommitPartial(h, old, res) ==
    LET new == Alloc(h)
    IN  [ref |-> new,
         heap |-> (new :> [DataFrame(res.results) EXCEPT !.index_name = "Roll"]) @@ h]

\* The end of Game.play: _play_df is assigned only after the loop has ended normally
PlayCommit(h, old, res) ==
    IF res.err # "ok"
    THEN [ref |-> old, heap |-> h]
    ELSE LET new == Alloc(h)
         IN  [ref |-> new,
              heap |-> (new :> [DataFrame(res.results) EXCEPT !.index_name = "Roll"]) @@ h]

\* stack() going down the columns: all rolls of die 0, then all rolls of die 1, ...
StackByColumn(df) ==
    LET K == Cardinality(df.columns)
        N == Cardinality(df.index)
    IN  [j \in 1..(N * K) |->
            [Roll |-> (j - 1) % N, Die |-> (j - 1) \div N,
             Outcome |-> df.data[(j - 1) \div N][(j - 1) % N]]]

\* DataFrame.stack(): the cells in row-major order, each with its (row, column) key
Stack(df) ==
    LET K == Cardinality(df.columns)
        N == Cardinality(df.index)
    IN  [j \in 1..(N * K) |->
            [Roll |-> (j - 1) \div K, Die |-> (j - 1) % K,
             Outcome |-> df.data[(j - 1) % K][(j - 1) \div K]]]

\* The exceptions Game.show raises
NoGame == "ValueError: No game has been played yet."
BadForm == "ValueError: Invalid form. Use 'wide' or 'narrow'."

\* show checking the form before it checks that a game has been played
GameShowFormFirst(h, df, form) ==
    IF form \notin {"wide", "narrow"}
    THEN [err |-> BadForm, ref |-> None, heap |-> h, val |-> <<>>]
    ELSE IF df = None
         THEN [err |-> NoGame, ref |-> None, heap |-> h, val |-> <<>>]
         ELSE IF form = "wide"
              THEN LET c == FrameCopy(h, df)
                   IN  [err |-> "ok", ref |-> c.ref, heap |-> c.heap, val |-> <<>>]
              ELSE [err |-> "ok", ref |-> None, heap |-> h, val |-> Stack(h[df])]

\* Game.show(form): the exception raised; for 'wide' the reference of the copy
\* (and the heap holding it), for 'narrow' the stacked frame
GameShow(h, df, form) ==
    IF df = None
    THEN [err |-> NoGame, ref |-> None, heap |-> h, val |-> <<>>]
    ELSE IF form = "wide"
         THEN LET c == FrameCopy(h, df)
              IN  [err |-> "ok", ref |-> c.ref, heap |-> c.heap, val |-> <<>>]
         ELSE IF form = "narrow"
              THEN [err |-> "ok", ref |-> None, heap |-> h, val |-> Stack(h[df])]
              ELSE [err |-> BadForm, ref |-> None, heap |-> h, val |-> <<>>]

-----------------------------------------------------------------------------
(* Analyzer                                                                *)

\* Row r of a frame as a tuple, in column order
Row(df, r) == [j \in 1..Cardinality(df.columns) |-> df.data[j - 1][r]]

\* Series.value_counts(): each distinct value with the number of its occurrences
ValueCounts(series) ==
    [v \in {series[r] : r \in DOMAIN series} |->
        Cardinality({r \in DOMAIN series : series[r] = v})]

\* sorted(t) of a tuple, by insertion
RECURSIVE Insert(_, _)
Insert(x, t) ==
    IF t = <<>> THEN <<x>>
    ELSE IF x <= Head(t) THEN <<x>> \o t
    ELSE <<Head(t)>> \o Insert(x, Tail(t))

RECURSIVE Sorted(_)
Sorted(t) == IF t = <<>> THEN <<>> ELSE Insert(Head(t), Sorted(Tail(t)))

\* jackpot counting along the other axis: the dice that rolled one face in every roll
jackpot_by_column(df) ==
    LET nunique == [c \in df.columns |-> Cardinality({df.data[c][r] : r \in df.index})]
    IN  Cardinality({c \in df.columns : nunique[c] = 1})

\* Analyzer.jackpot: (results.nunique(axis=1) == 1).sum()
jackpot(df) ==
    LET nunique == [r \in df.index |-> Cardinality({df.data[c][r] : c \in df.columns})]
    IN  Cardinality({r \in df.index : nunique[r] = 1})

\* Analyzer.face_counts_per_roll: apply(row.value_counts, axis=1), the faces absent
\* from a row being NaN (here {}), then fillna(0).astype(int).  DataFrame.apply of
\* a frame without rows returns a copy of the frame, its columns kept.
face_counts_per_roll(df) ==
    IF df.index = {}
    THEN [index |-> {}, columns |-> df.columns, data |-> <<>>]
    ELSE LET vc == [r \in df.index |-> ValueCounts([c \in df.columns |-> df.data[c][r]])]
             cols == UNION {DOMAIN vc[r] : r \in df.index}
             counts == [r \in df.index |->
                          [f \in cols |-> IF f \in DOMAIN vc[r] THEN {vc[r][f]} ELSE {}]]
         IN  [index |-> df.index, columns |-> cols,
              data |-> [r \in df.index |->
                          [f \in cols |-> IF counts[r][f] = {} THEN 0
                                          ELSE CHOOSE n \in counts[r][f] : TRUE]]]

\* combo_count without sorted(): the rows counted as they were rolled
combo_count_unsorted(df) == ValueCounts([r \in df.index |-> Row(df, r)])

\* Analyzer.combo_count: value_counts of tuple(sorted(row))
combo_count(df) == ValueCounts([r \in df.index |-> Sorted(Row(df, r))])

\* Analyzer.permutation_count: value_counts of tuple(row)
permutation_count(df) == ValueCounts([r \in df.index |-> Row(df, r)])

\* The exception Analyzer.__init__ raises
NotGame == "ValueError: Input must be a Game object."

\* Analyzer.__init__: the exception raised, and the reference results is bound to
AnalyzerNew(h, game, df) ==
    IF game # "Game"
    THEN [err |-> NotGame, ref |-> None, heap |-> h]
    ELSE LET s == GameShow(h, df, "wide")
         IN  IF s.err # "ok"
             THEN [err |-> s.err, ref |-> None, heap |-> h]
             ELSE LET c == FrameCopy(s.heap, s.ref)
                  IN  [err |-> "ok", ref |-> c.ref, heap |-> c.heap]

-----------------------------------------------------------------------------
(* The state machine                                                       *)

EmptyFrame == DataFrame(<<>>)

Call(op, err) == [op |-> op, err |-> err, die |-> 0, face |-> 0, n |-> 0, arg |-> PyNone]

\* The dice lists a Game is built from: one to MaxDice dice, repeats allowed, a list
\* using the Die objects in the order of their numbers
DiceLists == {l \in UNION {[0..(g - 1) -> DieIds] : g \in 1..MaxDice} :
                 \A i \in DOMAIN l : l[i] <= i + 1}

\* The arguments the callers pass
GameWeights == {PyNum(Fin(0)), PyNum(Fin(1))}
DieWeights ==
    {PyNum(Fin(-1)), PyNum(Fin(0)), PyNum(Fin(1)), PyNum(Big), PyNum(PInf), PyNum(NaN),
     PyStr("1"), PyStr("inf"), PyStr("abc"), PyNone}
FaceArgs == Faces \cup {NumFaces + 1}
GameDice == {dice[i] : i \in DOMAIN dice}
Forms == {"wide", "narrow", "long"}
GameArgs == {"Game", "Die"}

Init ==
    /\ weights = [d \in DieIds |-> DieInit]
    /\ dice \in DiceLists
    /\ heap = <<>>
    /\ play_df = None
    /\ analyzer = None
    /\ shown = None
    /\ last = Call("init", "ok")
    /\ ret = <<>>
    /\ lastRun = [set |-> FALSE, n |-> 0, rolls |-> <<>>]
    /\ snap = [set |-> FALSE, table |-> EmptyFrame]

\* The references and the heap after a call: m is Collect's record.  (In the actions
\* below, \E x \in {e} names the value of e.)
Memory(m) ==
    /\ heap' = m.heap
    /\ play_df' = m.play_df
    /\ analyzer' = m.analyzer
    /\ shown' = m.shown

\* die.change_weight(face, new_weight)
ChangeWeight(d, face, new_weight) ==
    \E res \in {ChangeWeightResult(weights[d], face, new_weight)} :
        /\ weights' = [weights EXCEPT ![d] = res.df]
        /\ last' = [Call("change_weight", res.err) EXCEPT
                        !.die = d, !.face = face, !.arg = new_weight]
        /\ ret' = <<>>
        /\ Memory(Collect(heap, play_df, analyzer, None))
        /\ UNCHANGED <<dice, lastRun, snap>>

\* die.roll(times)
Roll(d, times) ==
    \E err \in {RollError(weights[d])} :
        /\ IF err # "ok" THEN ret' = <<>> ELSE ret' \in RollOutcomes(weights[d], times)
        /\ last' = [Call("roll", err) EXCEPT !.die = d, !.n = times]
        /\ Memory(Collect(heap, play_df, analyzer, None))
        /\ UNCHANGED <<weights, dice, lastRun, snap>>

\* die.show(): a copy of the die's frame
ShowDie(d) ==
    /\ ret' = weights[d]
    /\ last' = [Call("die.show", "ok") EXCEPT !.die = d]
    /\ Memory(Collect(heap, play_df, analyzer, None))
    /\ UNCHANGED <<weights, dice, lastRun, snap>>

\* game.play(num_rolls)
Play(num_rolls) ==
    \E res \in PlayLoop(0, <<>>, num_rolls) :
    \E c \in {PlayCommit(heap, play_df, res)} :
        /\ Memory(Collect(c.heap, c.ref, analyzer, None))
        /\ last' = [Call("play", res.err) EXCEPT !.n = num_rolls]
        /\ lastRun' = IF res.err = "ok"
                      THEN [set |-> TRUE, n |-> num_rolls, rolls |-> res.results]
                      ELSE lastRun
        /\ ret' = <<>>
        /\ UNCHANGED <<weights, dice, snap>>

\* df = game.show(form)
Show(form) ==
    \E s \in {GameShow(heap, play_df, form)} :
        /\ Memory(Collect(s.heap, play_df, analyzer, s.ref))
        /\ last' = [Call("show", s.err) EXCEPT !.arg = PyStr(form)]
        /\ ret' = s.val
        /\ UNCHANGED <<weights, dice, lastRun, snap>>

\* df.iloc[r, c] = value on the frame show('wide') has just returned
MutateShown(r, c, value) ==
    /\ shown # None
    /\ r \in heap[shown].index
    /\ c \in heap[shown].columns
    /\ Memory(Collect([heap EXCEPT ![shown].data[c][r] = value], play_df, analyzer, None))
    /\ last' = Call("mutate", "ok")
    /\ ret' = <<>>
    /\ UNCHANGED <<weights, dice, lastRun, snap>>

\* analyzer = Analyzer(game)
NewAnalyzer(game) ==
    \E a \in {AnalyzerNew(heap, game, play_df)} :
        /\ Memory(Collect(a.heap, play_df, IF a.err = "ok" THEN a.ref ELSE analyzer, None))
        /\ last' = [Call("Analyzer", a.err) EXCEPT !.arg = PyStr(game)]
        /\ ret' = <<>>
        /\ snap' = IF a.err = "ok"
                   THEN [set |-> TRUE, table |-> heap[play_df]]
                   ELSE snap
        /\ UNCHANGED <<weights, dice, lastRun>>

\* analyzer.jackpot(), .face_counts_per_roll(), .combo_count(), .permutation_count()
Query(op) ==
    /\ analyzer # None
    /\ last' = Call(op, "ok")
    /\ ret' = CASE op = "jackpot" -> jackpot(heap[analyzer])
                [] op = "face_counts_per_roll" -> face_counts_per_roll(heap[analyzer])
                [] op = "combo_count" -> combo_count(heap[analyzer])
                [] op = "permutation_count" -> permutation_count(heap[analyzer])
    /\ Memory(Collect(heap, play_df, analyzer, None))
    /\ UNCHANGED <<weights, dice, lastRun, snap>>

Queries == {"jackpot", "face_counts_per_roll", "combo_count", "permutation_count"}

Next ==
    \/ \E d \in GameDice, face \in Faces, w \in GameWeights : ChangeWeight(d, face, w)
    \/ \E n \in 0..MaxRolls : Play(n)
    \/ \E form \in Forms : Show(form)
    \/ \E r \in 0..(MaxRolls - 1), c \in 0..(MaxDice - 1), v \in Faces : MutateShown(r, c, v)
    \/ \E game \in GameArgs : NewAnalyzer(game)
    \/ \E op \in Queries : Query(op)

Spec == Init /\ [][Next]_vars

\* One Die alone, with every kind of argument
InitDie == Init /\ NumDice = 1

NextDie ==
    \/ \E d \in GameDice, face \in FaceArgs, w \in DieWeights : ChangeWeight(d, face, w)
    \/ \E d \in GameDice, times \in 0..MaxRolls : Roll(d, times)
    \/ \E d \in GameDice : ShowDie(d)

SpecDie == InitDie /\ [][NextDie]_vars

\* The tables and what is computed from them: the states right after game.play(n) and
\* Analyzer(game) on a new Game of distinct dice, then show and the Analyzer's methods
InitQuery ==
    /\ weights = [d \in DieIds |-> DieInit]
    /\ dice \in {l \in DiceLists : \A i \in DOMAIN l : l[i] = i + 1}
    /\ shown = None
    /\ ret = <<>>
    /\ last = [Call("Analyzer", "ok") EXCEPT !.arg = PyStr("Game")]
    /\ \E n \in 0..MaxRolls :
       \E res \in PlayLoop(0, <<>>, n) :
       \E c \in {PlayCommit(<<>>, None, res)} :
       \E a \in {AnalyzerNew(c.heap, "Game", c.ref)} :
       \E m \in {Collect(a.heap, c.ref, a.ref, None)} :
           /\ heap = m.heap
           /\ play_df = m.play_df
           /\ analyzer = m.analyzer
           /\ lastRun = [set |-> TRUE, n |-> n, rolls |-> res.results]
           /\ snap = [set |-> TRUE, table |-> c.heap[c.ref]]

NextQuery ==
    \/ \E form \in Forms : Show(form)
    \/ \E op \in Queries : Query(op)

SpecQuery == InitQuery /\ [][NextQuery]_vars

-----------------------------------------------------------------------------
(* Properties of Game.play, Game.show and the Analyzer's copy               *)

\* The frame t holds exactly the rolls of the play recorded in run: one row for each of
\* its rolls, one column for each die, each cell what that die rolled in that row
IsTableOf(t, run) ==
    /\ t.index = 0..(run.n - 1)
    /\ t.columns = DOMAIN run.rolls
    /\ \A c \in t.columns :
         /\ DOMAIN t.data[c] = t.index
         /\ \A r \in t.index : t.data[c][r] = run.rolls[c][r]

\* What show('wide') gives is what it gave after the last play that returned, and an
\* error when no play has returned
SameAsLastRun ==
    LET s == GameShow(heap, play_df, "wide")
    IN  IF lastRun.set
        THEN s.err = "ok" /\ IsTableOf(s.heap[s.ref], lastRun)
        ELSE s.err = NoGame

\* C1: after play(N) has returned on a Game of g dice, the table show('wide') returns
\* has exactly the rows 0..N-1 and the columns 0..g-1, the cell of row r and column c is
\* the face die c rolled in roll r (one of that die's faces), and nothing of an earlier
\* play is left in it.
C1_PlayReplacesTable ==
    lastRun.set =>
        /\ play_df # None
        /\ heap[play_df].index = 0..(lastRun.n - 1)
        /\ heap[play_df].columns = 0..(NumDice - 1)
        /\ Cardinality(heap[play_df].index) = lastRun.n
        /\ IsTableOf(heap[play_df], lastRun)
        /\ \A c \in heap[play_df].columns : \A r \in heap[play_df].index :
               heap[play_df].data[c][r] \in DOMAIN weights[dice[c]]

\* C1's case: a play of one roll has returned on a Game of two dice whose Analyzer
\* still holds the two rows of the play before it
C1_Witness ==
    /\ last.op = "play"
    /\ last.err = "ok"
    /\ lastRun.n = 1
    /\ NumDice = 2
    /\ snap.set
    /\ Cardinality(snap.table.index) = 2

\* C2: play raises exactly when some die of the Game cannot roll, and after a play that
\* raised, show gives what it gave before the call: the table of the last play that
\* returned, or the error of a Game never played; no table of the dice rolled before
\* the failing one is visible.
C2_FailedPlayKeepsTable ==
    last.op = "play" =>
        /\ (last.err # "ok") <=> (\E i \in DOMAIN dice : RollError(weights[dice[i]]) # "ok")
        /\ last.err # "ok" => SameAsLastRun
        /\ last.err # "ok" /\ ~lastRun.set => play_df = None

\* C2's case: a play raised at the second die, after the first die had rolled, on a
\* Game that had a table
C2_Witness ==
    /\ last.op = "play"
    /\ last.err # "ok"
    /\ last.n = MaxRolls
    /\ lastRun.set
    /\ NumDice = 2
    /\ RollError(weights[dice[0]]) = "ok"
    /\ RollError(weights[dice[1]]) # "ok"

\* C3 in a state: show on a Game never played raises "No game has been played yet"
\* whatever the form, Analyzer(game) on such a Game raises the same, and show on a
\* played Game raises "Invalid form" for every form but 'wide' and 'narrow', which
\* return; after either failure show gives what it gave before.
C3_ShowErrors ==
    /\ last.op = "show" =>
           last.err = IF ~lastRun.set THEN NoGame
                      ELSE IF last.arg.s \in {"wide", "narrow"} THEN "ok" ELSE BadForm
    /\ last.op = "Analyzer" /\ last.arg.s = "Game" /\ ~lastRun.set => last.err = NoGame
    /\ last.op = "show" \/ (last.op = "Analyzer" /\ last.err # "ok") => SameAsLastRun

\* C3 in a step: a show, or an Analyzer(game) that raises, leaves the dice, their
\* weights and the Game's table as they were
C3_ShowKeepsState ==
    (last'.op = "show" \/ (last'.op = "Analyzer" /\ last'.err # "ok")) =>
        /\ UNCHANGED <<weights, dice, lastRun>>
        /\ (play_df' = None) <=> (play_df = None)
        /\ play_df # None => heap'[play_df'] = heap[play_df]

\* C3: show fails with "No game has been played yet" before the first play that
\* returned, for every form, and so does the construction of an Analyzer; after one,
\* it fails with "Invalid form" for every form other than 'wide' and 'narrow'; and
\* neither failure changes the Game.
C3_ShowFailures == []C3_ShowErrors /\ [][C3_ShowKeepsState]_vars

\* C3's case: show with a form that is neither 'wide' nor 'narrow' on a Game never
\* played
C3_Witness ==
    /\ last.op = "show"
    /\ last.arg.s = "long"
    /\ ~lastRun.set
    /\ last.err = NoGame

\* C4: the Analyzer's table is the Game's table as it was when the Analyzer was
\* constructed, whatever is played, weighted or written into a frame show returned
\* afterwards; each of its four methods returns the statistic of that table; and
\* writing into a frame show returned changes nothing show returns later.
C4_AnalyzerKeepsCopy ==
    /\ snap.set =>
        /\ analyzer # None
        /\ heap[analyzer] = snap.table
        /\ last.op = "jackpot" => ret = jackpot(snap.table)
        /\ last.op = "face_counts_per_roll" => ret = face_counts_per_roll(snap.table)
        /\ last.op = "combo_count" => ret = combo_count(snap.table)
        /\ last.op = "permutation_count" => ret = permutation_count(snap.table)
    /\ last.op = "mutate" => SameAsLastRun

\* C4's case: a cell of a frame show returned has been written, on a Game whose weights
\* were changed and which was played again after its Analyzer was constructed
C4_Witness ==
    /\ last.op = "mutate"
    /\ snap.set
    /\ lastRun.set
    /\ ~IsTableOf(snap.table, lastRun)
    /\ weights[dice[0]] # DieInit

-----------------------------------------------------------------------------
(* Properties of show('narrow') and of the Analyzer's methods               *)

\* The sum of the values fn takes on the set S
RECURSIVE TotalOver(_, _)
TotalOver(fn, S) ==
    IF S = {} THEN 0
    ELSE LET x == CHOOSE y \in S : TRUE IN fn[x] + TotalOver(fn, S \ {x})

Total(fn) == TotalOver(fn, DOMAIN fn)

\* The tuples a and b hold the same faces the same number of times
SameBag(a, b) ==
    /\ Len(a) = Len(b)
    /\ \A f \in Faces : Cardinality({j \in DOMAIN a : a[j] = f})
                        = Cardinality({j \in DOMAIN b : b[j] = f})

IsAscending(k) == \A i, j \in DOMAIN k : i < j => k[i] <= k[j]

\* C5: show('narrow') on a table of N rows and g columns returns N * g rows, one for
\* each cell, holding the cell's roll, die and face, ordered by roll and then by die;
\* each cell of the wide table is found in exactly one of them, so the wide table can
\* be put together again from the narrow one.
C5_NarrowRows ==
    last.op = "show" /\ last.arg.s = "narrow" /\ last.err = "ok" =>
        LET t == heap[play_df]
            g == Cardinality(t.columns)
        IN  /\ Len(ret) = Cardinality(t.index) * g
            /\ \A j \in 1..Len(ret) : ret[j].Roll \in t.index /\ ret[j].Die \in t.columns
            /\ \A j, k \in 1..Len(ret) :
                   j < k => \/ ret[j].Roll < ret[k].Roll
                            \/ ret[j].Roll = ret[k].Roll /\ ret[j].Die < ret[k].Die
            /\ \A r \in t.index : \A c \in t.columns :
                   /\ Cardinality({j \in 1..Len(ret) : ret[j].Roll = r /\ ret[j].Die = c}) = 1
                   /\ ret[r * g + c + 1] = [Roll |-> r, Die |-> c, Outcome |-> t.data[c][r]]

\* C5's case: the narrow form of a table of two rolls of two dice in which the second
\* die's first roll differs from the first die's second roll
C5_Witness ==
    /\ last.op = "show"
    /\ last.arg.s = "narrow"
    /\ Len(ret) = 4
    /\ ret[2].Outcome # ret[3].Outcome

\* C6: combo_count has one key for each multiset of faces some row holds, the key
\* being its faces in ascending order, so that rows that are permutations of one another
\* fall under one key; permutation_count has one key for each distinct row as rolled;
\* each count is the number of rows under the key, and in both the counts add up to the
\* number of rows.
C6_ComboAndPermutation ==
    LET t == heap[analyzer]
    IN  /\ last.op = "combo_count" =>
               /\ \A k \in DOMAIN ret :
                      /\ IsAscending(k)
                      /\ ret[k] > 0
                      /\ ret[k] = Cardinality({r \in t.index : SameBag(Row(t, r), k)})
               /\ \A r \in t.index : \E k \in DOMAIN ret : SameBag(Row(t, r), k)
               /\ \A k1, k2 \in DOMAIN ret : SameBag(k1, k2) => k1 = k2
               /\ Total(ret) = Cardinality(t.index)
        /\ last.op = "permutation_count" =>
               /\ \A k \in DOMAIN ret :
                      /\ ret[k] > 0
                      /\ ret[k] = Cardinality({r \in t.index : Row(t, r) = k})
               /\ \A r \in t.index : \E k \in DOMAIN ret : Row(t, r) = k
               /\ Total(ret) = Cardinality(t.index)

\* C6's case: combo_count of a table whose two rows are permutations of one another
\* and not equal
C6_Witness ==
    /\ last.op = "combo_count"
    /\ heap[analyzer].index = {0, 1}
    /\ Row(heap[analyzer], 0) = <<2, 1>>
    /\ Row(heap[analyzer], 1) = <<1, 2>>
    /\ ret = (<<1, 2>> :> 2)

\* C7: jackpot returns the number of rows whose cells all hold one face; it lies
\* between 0 and the number of rows, and with a single die it is the number of rows.
C7_Jackpot ==
    last.op = "jackpot" =>
        LET t == heap[analyzer]
        IN  /\ ret = Cardinality({r \in t.index :
                        \A c1, c2 \in t.columns : t.data[c1][r] = t.data[c2][r]})
            /\ ret \in 0..Cardinality(t.index)
            /\ Cardinality(t.columns) = 1 => ret = Cardinality(t.index)

\* C7's case: jackpot of a table of two dice with one row of equal faces and one row of
\* different faces
C7_Witness ==
    /\ last.op = "jackpot"
    /\ heap[analyzer].columns = {0, 1}
    /\ heap[analyzer].index = {0, 1}
    /\ ret = 1

\* C8: face_counts_per_roll returns one row for each roll and one column for each
\* face found anywhere in the Analyzer's table; the entry of roll r and face f is the
\* number of dice that rolled f in r, an integer that is 0 for a face not in the row,
\* and each row adds up to the number of dice.
C8_FaceCounts ==
    last.op = "face_counts_per_roll" =>
        LET t == heap[analyzer]
        IN  /\ ret.index = t.index
            /\ ret.columns = {t.data[c][r] : c \in t.columns, r \in t.index}
            /\ \A r \in ret.index :
                   /\ DOMAIN ret.data[r] = ret.columns
                   /\ \A f \in ret.columns :
                          /\ ret.data[r][f] \in Nat
                          /\ ret.data[r][f] = Cardinality({c \in t.columns : t.data[c][r] = f})
                   /\ Total(ret.data[r]) = Cardinality(t.columns)

\* C8 for tables of one roll or more
C8_FaceCountsOfRolls == heap[analyzer].index # {} => C8_FaceCounts

-----------------------------------------------------------------------------
(* Properties of the Die                                                    *)

\* C9: roll raises, for every number of rolls, 0 too, and returns no face, when the
\* weights add up to zero and when no distribution can be made of them: when they
\* add up to zero or less, or one of them is negative.
C9_RollRejectsWeights ==
    LET w == weights[last.die]
        total == FSum(w)
    IN  last.op = "roll"
        /\ (\/ IsNaN(total)
            \/ Sign(total) <= 0
            \/ \E f \in Faces : IsNeg(w[f]))
        => last.err # "ok" /\ ret = <<>>

\* C9 for the weights numpy does reject: a total of zero or NaN, an infinite weight,
\* weights of both signs
C9_RollRejectsMixedWeights ==
    LET w == weights[last.die]
        total == FSum(w)
    IN  last.op = "roll"
        /\ (\/ ~IsFinite(total)
            \/ Sign(total) = 0
            \/ \E f, f2 \in Faces : IsNeg(w[f]) /\ Sign(w[f2]) = 1)
        => last.err # "ok" /\ ret = <<>>

\* A number that is finite, or a text that reads as one
IsFiniteNumber(x) == PyFloat(x).err = "ok" /\ IsFinite(PyFloat(x).val)

\* C10 in a state: change_weight raises IndexError for a face the die does not have,
\* and TypeError for a weight that is neither a finite number nor the text of one.
C10_ChangeWeightErrors ==
    last.op = "change_weight" =>
        /\ last.face \notin Faces => last.err = "IndexError"
        /\ last.face \in Faces /\ ~IsFiniteNumber(last.arg) => last.err = "TypeError"

\* C10 in a step: a change_weight that returns changes the weight of its face and no
\* other, and one that raises changes no weight
C10_ChangeWeightStep ==
    last'.op = "change_weight" =>
        IF last'.err = "ok"
        THEN \A d \in DieIds : \A f \in Faces :
                 d # last'.die \/ f # last'.face => weights'[d][f] = weights[d][f]
        ELSE weights' = weights

\* C10: change_weight fails with IndexError when the face is not one of the die's, with
\* TypeError when the weight is not a finite number or the text of one; when it returns
\* only the weight of that face has changed, when it fails nothing has.
C10_ChangeWeight == []C10_ChangeWeightErrors /\ [][C10_ChangeWeightStep]_vars

\* The weights w are finite, none is negative and one at least is positive
IsDistribution(w) ==
    /\ \A f \in Faces : IsFinite(w[f]) /\ Sign(w[f]) >= 0
    /\ \E f \in Faces : Sign(w[f]) = 1

\* C11 in a state: roll(k), k >= 0, on a die whose weights are not negative and add up
\* to more than zero returns a list of k elements, each a face of the die whose weight
\* is not zero
C11_RollReturnsFaces ==
    last.op = "roll" /\ IsDistribution(weights[last.die]) =>
        /\ last.err = "ok"
        /\ DOMAIN ret = 0..(last.n - 1)
        /\ Cardinality(DOMAIN ret) = last.n
        /\ \A i \in DOMAIN ret : ret[i] \in Faces /\ Sign(weights[last.die][ret[i]]) # 0

\* C11 in a step: roll changes no face and no weight of any die
C11_RollKeepsWeights == last'.op = "roll" => weights' = weights

\* C11: for every k >= 0 and every die whose weights are not negative and add up to
\* more than zero, roll(k) returns exactly k elements (none for k = 0), each a face of
\* the die and none a face of weight zero, and changes neither the faces nor a weight.
C11_Roll == []C11_RollReturnsFaces /\ [][C11_RollKeepsWeights]_vars

\* C11 for weights whose sum is a finite double
C11_RollOfFiniteTotal ==
    last.op = "roll" /\ IsFinite(FSum(weights[last.die])) => C11_RollReturnsFaces

\* C12 in a state: every die has the faces it was made with, one weight for each, all
\* 1.0 when it is made; show returns those weights.
C12_FacesKept ==
    /\ \A d \in DieIds : DOMAIN weights[d] = Faces
    /\ last.op = "init" => \A d \in DieIds : \A f \in Faces : weights[d][f] = Fin(1)
    /\ last.op = "die.show" => ret = weights[last.die] /\ DOMAIN ret = Faces

\* C12 in a step: a change_weight that returns leaves float(new_weight) as the weight
\* of its face and every other weight as it was; one for a face the die does not have
\* raises IndexError and leaves all weights as they were
C12_ChangeWeightStep ==
    last'.op = "change_weight" =>
        /\ last'.face \notin Faces => last'.err = "IndexError" /\ weights' = weights
        /\ last'.err = "ok" =>
              /\ last'.arg.t = "num" => weights'[last'.die][last'.face] = last'.arg.f
              /\ weights'[last'.die][last'.face] = PyFloat(last'.arg).val
              /\ \A d \in DieIds : \A f \in DOMAIN weights'[d] :
                     d # last'.die \/ f # last'.face =>
                         f \in DOMAIN weights[d] /\ weights'[d][f] = weights[d][f]

\* C12: whatever change_weight calls are made, a die has the faces it was made with and
\* one weight for each, all 1.0 at first; a change_weight that returns makes show give
\* the new weight for its face and the old weight for every other; change_weight for a
\* face the die does not have fails with IndexError, adds no face and changes no weight.
C12_ChangeWeightIsLocal == []C12_FacesKept /\ [][C12_ChangeWeightStep]_vars

\* C12's case: change_weight has set the weight of the second face to 0 on a die whose
\* first face had been given the weight -1 before
C12_Witness ==
    /\ last.op = "change_weight"
    /\ last.err = "ok"
    /\ last.face = 2
    /\ weights[last.die][2] = Fin(0)
    /\ weights[last.die][1] = Fin(-1)

====
